---- MODULE Spec2Model ----
(***************************************************************************)
(* A model of audfprint.py: landmark fingerprint extraction.               *)
(*                                                                         *)
(* Vectors and matrices are functions on 0-based index ranges, as the      *)
(* numpy arrays of the source are.  S[b][c] is the spectrogram value of    *)
(* frequency bin b at time frame c.  Real values are fixed-point numbers   *)
(* in units of 1/1000; a product with a Gaussian weight or with the       *)
(* decay factor a_dec is rounded down to that unit.                        *)
(***************************************************************************)
EXTENDS Integers, Sequences, FiniteSets, TLC

VARIABLES
    pc,           \* position of the program being run
    lx,           \* locmax: the input vector x
    lmask,        \* locmax: the returned boolean vector
    S,            \* find_peaks: the spectrogram
    sthresh,      \* find_peaks: the threshold envelope
    peaks,        \* find_peaks: the peak matrix, peaks[b][c] in {0, 1}
    col,          \* find_peaks: the loop variable of the frame loops
    cands,        \* find_peaks: what is left of the sorted (val, peakpos) list
    npeaksfound,  \* find_peaks: peaks accepted in the current frame
    fwdpeaks,     \* history: the peak matrix as the forward pass left it
    bwdlog,       \* history: the last decision of the backward pass
    pklist,       \* the per-frame peak lists (find_peaks' result)
    landmarks,    \* peaks2landmarks' result
    hashes,       \* landmarks2hashes' result
    filelist,     \* main: the files named on the command line
    ix,           \* main: index of the file being ingested
    ht,           \* main: the hash table (names, stored hashes, dirty)
    totdur,       \* main: total duration so far, in samples
    tothashes,    \* main: total number of hashes so far
    saved,        \* main: whether ht.save was called, and the names it wrote
    results       \* main: per file, what ingest returned or raised

vars == <<pc, lx, lmask, S, sthresh, peaks, col, cands, npeaksfound, fwdpeaks,
          bwdlog, pklist, landmarks, hashes, filelist, ix, ht, totdur,
          tothashes, saved, results>>

lmxVars == <<lx, lmask>>
fpVars == <<S, sthresh, peaks, col, cands, npeaksfound, fwdpeaks, bwdlog>>
lmVars == <<landmarks, hashes>>
mainVars == <<filelist, ix, ht, totdur, tothashes, saved, results>>

----------------------------------------------------------------------------
(* Parameters of the source.                                               *)

maxpksperframe == 5
targetdf == 31
targetdt == 63
maxpairsperpeak == 3
f_sd == 30

\* a_dec = 1 - 0.01*(DENSITY*sqrt(t_hop/0.032)/35) = 0.99513..., in 1/1000
a_dec == 995

\* round(1000 * exp(-0.5*(d/f_sd)^2)) for d = 0, 1, 2, ...
GaussTable ==
    <<1000, 999, 998, 995, 991, 986, 980, 973, 965, 956,
      946, 935, 923, 910, 897, 882, 867, 852, 835, 818>>

----------------------------------------------------------------------------
(* Vectors.                                                                *)

VLen(v) == Cardinality(DOMAIN v)

Abs(n) == IF n < 0 THEN 0 - n ELSE n

Max2(a, b) == IF a >= b THEN a ELSE b

Min2(a, b) == IF a <= b THEN a ELSE b

\* x * (w/1000), rounded down to the unit
MulScaled(x, w) == (x * w) \div 1000

\* exp(-0.5*(((binvals - pos)/float(width))**2)) at one bin
Gauss(b, pos) ==
    LET d == Abs(b - pos)
    IN  IF d < Len(GaussTable) THEN GaussTable[d + 1] ELSE 0

\* the indices of a vector (or the elements of a set of integers), ascending
RECURSIVE AscSeq(_)
AscSeq(s) ==
    IF s = {} THEN <<>>
    ELSE LET m == CHOOSE a \in s : \A b \in s : a <= b
         IN  <<m>> \o AscSeq(s \ {m})

\* np.nonzero(v)[0] of a numeric vector
nonzero(v) == AscSeq({i \in DOMAIN v : v[i] /= 0})

\* np.nonzero(m)[0] of a boolean vector
nonzeroMask(m) == AscSeq({i \in DOMAIN m : m[i]})

----------------------------------------------------------------------------
(* locmax                                                                  *)

\* a slip: the appended element is x[-1] instead of x[-1]-1
locmax_noLast(x) ==
    LET n  == VLen(x)
        r1 == [i \in 0..n |-> IF i < n THEN x[i] ELSE x[n-1]]
        r2 == [i \in 0..n |-> IF i = 0 THEN x[0] ELSE x[i-1]]
        nbr == [i \in 0..n |-> r1[i] >= r2[i]]
    IN  [i \in 0..(n-1) |-> nbr[i] /\ ~nbr[i+1]]

\* a slip: np.greater instead of np.greater_equal
locmax_strictLeft(x) ==
    LET n  == VLen(x)
        r1 == [i \in 0..n |-> IF i < n THEN x[i] ELSE x[n-1] - 1]
        r2 == [i \in 0..n |-> IF i = 0 THEN x[0] ELSE x[i-1]]
        nbr == [i \in 0..n |-> r1[i] > r2[i]]
    IN  [i \in 0..(n-1) |-> nbr[i] /\ ~nbr[i+1]]

locmax(x) ==
    LET n  == VLen(x)
        \* np.r_[x, x[-1]-1]
        r1 == [i \in 0..n |-> IF i < n THEN x[i] ELSE x[n-1] - 1]
        \* np.r_[x[0], x]
        r2 == [i \in 0..n |-> IF i = 0 THEN x[0] ELSE x[i-1]]
        nbr == [i \in 0..n |-> r1[i] >= r2[i]]
    IN  \* nbr[:-1] & ~nbr[1:]
        [i \in 0..(n-1) |-> nbr[i] /\ ~nbr[i+1]]

----------------------------------------------------------------------------
(* Bounds of the locmax check.                                             *)

MaxLen == 4
MaxLVal == 2

LocmaxInputs == UNION {[0..(n-1) -> 0..MaxLVal] : n \in 1..MaxLen}

NoVec == <<>>

----------------------------------------------------------------------------
(* spreadpeaks, spreadpeaksinvector                                        *)

ZeroVec(npoints) == [b \in 0..(npoints-1) |-> 0]

\* the loop of spreadpeaks: Y = np.maximum(Y, val*np.exp(...)) per (pos, val)
RECURSIVE spreadloop(_, _)
spreadloop(pks, Y) ==
    IF pks = <<>> THEN Y
    ELSE LET pos == Head(pks)[1]
             val == Head(pks)[2]
         IN  spreadloop(Tail(pks),
                 [b \in DOMAIN Y |-> Max2(Y[b], MulScaled(val, Gauss(b, pos)))])

\* base = NoVec stands for base=None; the width is f_sd at every call
spreadpeaks(pks, npoints, base) ==
    spreadloop(pks, IF base = NoVec THEN ZeroVec(npoints) ELSE base)

spreadpeaksinvector(vector) ==
    LET npts == VLen(vector)
        pk   == nonzeroMask(locmax(vector))
    IN  spreadpeaks([i \in 1..Len(pk) |-> <<pk[i], vector[pk[i]]>>], npts, NoVec)

----------------------------------------------------------------------------
(* find_peaks: the pieces of its loops                                     *)

srowsOf(M) == VLen(M)

scolsOf(M) == IF VLen(M) = 0 THEN 0 ELSE VLen(M[0])

Column(M, c) == [b \in DOMAIN M |-> M[b][c]]

\* sorted(zip(vals, poss), reverse=True): by value, then by position, descending
PairGreater(p, q) == p[1] > q[1] \/ (p[1] = q[1] /\ p[2] > q[2])

RECURSIVE DescSeq(_)
DescSeq(ps) ==
    IF ps = {} THEN <<>>
    ELSE LET m == CHOOSE p \in ps : \A q \in ps \ {p} : PairGreater(p, q)
         IN  <<m>> \o DescSeq(ps \ {m})

SeqToSet(q) == {q[i] : i \in 1..Len(q)}

\* np.max(S[:,:np.minimum(10, scols)],axis=1)
RECURSIVE MaxOver(_, _, _)
MaxOver(M, b, k) ==
    IF k = 1 THEN M[b][0] ELSE Max2(MaxOver(M, b, k - 1), M[b][k-1])

FirstFramesMax(M) ==
    [b \in DOMAIN M |-> MaxOver(M, b, Min2(10, scolsOf(M)))]

\* lines 107-117: the candidates of one frame, in the order they are walked
ForwardCandidates(Scol, sth) ==
    LET sdiff     == [b \in DOMAIN Scol |-> Max2(0, Scol[b] - sth[b])]
        sdmaxposs == nonzeroMask(locmax(sdiff))
    IN  DescSeq({<<Scol[sdmaxposs[i]], sdmaxposs[i]>> : i \in 1..Len(sdmaxposs)})

\* a slip: <= in the test of the per-frame cap
ForwardAccepts_offByOne(n, val, thr) == n <= maxpksperframe /\ val > thr

\* lines 118-119
ForwardAccepts(n, val, thr) == n < maxpksperframe /\ val > thr

\* lines 131-133
BackwardCandidates(M, pk, c) ==
    LET pkposs == nonzero(Column(pk, c))
    IN  DescSeq({<<M[pkposs[i]][c], pkposs[i]>> : i \in 1..Len(pkposs)})

\* a slip: > in the keep test
BackwardKeeps_strict(val, thr) == val > thr

\* line 134
BackwardKeeps(val, thr) == val >= thr

\* a slip: a kept peak is also written, at column col instead of col-1
BackwardMark_wrongColumn(pk, peakpos, c, keep) ==
    IF keep
    THEN IF c + 1 < scolsOf(pk) THEN [pk EXCEPT ![peakpos][c + 1] = 1] ELSE pk
    ELSE [pk EXCEPT ![peakpos][c] = 0]

\* lines 134-140: what the backward pass does to the peak matrix
BackwardMark(pk, peakpos, c, keep) ==
    IF keep THEN pk ELSE [pk EXCEPT ![peakpos][c] = 0]

Decay(sth) == [b \in DOMAIN sth |-> MulScaled(sth[b], a_dec)]

\* lines 118-124: the body of the forward loop over the sorted candidates
ForwardStep(sth, pk, n, Scol, c, peakpos) ==
    IF ForwardAccepts(n, Scol[peakpos], sth[peakpos])
    THEN [sthresh |-> spreadpeaks(<< <<peakpos, Scol[peakpos]>> >>, VLen(sth), sth),
          peaks |-> [pk EXCEPT ![peakpos][c] = 1],
          npeaksfound |-> n + 1]
    ELSE [sthresh |-> sth, peaks |-> pk, npeaksfound |-> n]

\* lines 134-140: the body of the backward loop over the sorted peaks
BackwardStep(sth, pk, c, val, peakpos) ==
    LET keep == BackwardKeeps(val, sth[peakpos])
    IN  [sthresh |-> IF keep
                     THEN spreadpeaks(<< <<peakpos, val>> >>, VLen(sth), sth)
                     ELSE sth,
         peaks |-> BackwardMark(pk, peakpos, c, keep),
         kept |-> keep]

ZeroMatrix(srows, scols) == [b \in 0..(srows-1) |-> [c \in 0..(scols-1) |-> 0]]

\* pklist[col] = np.nonzero(peaks[:,col])[0]
PeakList(pk, scols) == [c \in 0..(scols-1) |-> nonzero(Column(pk, c))]

----------------------------------------------------------------------------
(* find_peaks as a function of the spectrogram: the same loop bodies       *)

\* e, with v evaluated first: the frame loops hand v on to the next frame
Eager(v, e) == IF v = v THEN e ELSE e

RECURSIVE ForwardWalk(_, _, _, _, _, _)
ForwardWalk(sth, pk, n, Scol, c, cs) ==
    IF cs = <<>> THEN [sthresh |-> sth, peaks |-> pk]
    ELSE LET r == ForwardStep(sth, pk, n, Scol, c, Head(cs)[2])
         IN  ForwardWalk(r.sthresh, r.peaks, r.npeaksfound, Scol, c, Tail(cs))

RECURSIVE ForwardPass(_, _, _, _)
ForwardPass(sth, pk, M, c) ==
    IF c >= scolsOf(M) THEN [sthresh |-> sth, peaks |-> pk]
    ELSE LET Scol == Column(M, c)
             r    == ForwardWalk(sth, pk, 0, Scol, c, ForwardCandidates(Scol, sth))
         IN  Eager(r, ForwardPass(Decay(r.sthresh), r.peaks, M, c + 1))

RECURSIVE BackwardWalk(_, _, _, _)
BackwardWalk(sth, pk, c, cs) ==
    IF cs = <<>> THEN [sthresh |-> sth, peaks |-> pk]
    ELSE LET r == BackwardStep(sth, pk, c, Head(cs)[1], Head(cs)[2])
         IN  BackwardWalk(r.sthresh, r.peaks, c, Tail(cs))

\* c runs over range(scols, 0, -1)
RECURSIVE BackwardPass(_, _, _, _)
BackwardPass(sth, pk, M, c) ==
    IF c <= 0 THEN [sthresh |-> sth, peaks |-> pk]
    ELSE LET r == BackwardWalk(sth, pk, c - 1, BackwardCandidates(M, pk, c - 1))
         IN  Eager(r, BackwardPass(Decay(r.sthresh), r.peaks, M, c - 1))

\* line 93: np.max of an array without elements raises ValueError
FindPeaksRaises(M) == scolsOf(M) = 0

\* the peak list, or the name of the exception raised
find_peaks(M) ==
    IF FindPeaksRaises(M) THEN "ValueError"
    ELSE LET srows == srowsOf(M)
             scols == scolsOf(M)
             f == ForwardPass(spreadpeaksinvector(FirstFramesMax(M)),
                              ZeroMatrix(srows, scols), M, 0)
             b == BackwardPass(spreadpeaksinvector(Column(M, scols - 1)),
                               f.peaks, M, scols)
         IN  PeakList(b.peaks, scols)

----------------------------------------------------------------------------
(* peaks2landmarks                                                         *)

\* a slip: the lookahead is not cut at targetdt frames
Col2End_noLookahead(scols, c) == scols

\* the end of xrange(col+1, min(scols, col+targetdt))
Col2End(scols, c) == Min2(scols, c + targetdt)

\* a slip: <= in the test of the per-peak cap
PairAccepts_offByOne(pairsthispeak, peak, peak2) ==
    pairsthispeak <= maxpairsperpeak /\ Abs(peak - peak2) < targetdf

\* lines 165-166
PairAccepts(pairsthispeak, peak, peak2) ==
    pairsthispeak < maxpairsperpeak /\ Abs(peak - peak2) < targetdf

\* for peak2 in pklist[col2]: the landmarks appended, and the counter after
RECURSIVE PairPeak2s(_, _, _, _, _)
PairPeak2s(c, peak, col2, p2s, pairsthispeak) ==
    IF p2s = <<>> THEN [pairs |-> pairsthispeak, landmarks |-> <<>>]
    ELSE IF PairAccepts(pairsthispeak, peak, Head(p2s))
         THEN LET r == PairPeak2s(c, peak, col2, Tail(p2s), pairsthispeak + 1)
              IN  [pairs |-> r.pairs,
                   landmarks |-> <<<<c, peak, Head(p2s), col2 - c>>>> \o r.landmarks]
         ELSE PairPeak2s(c, peak, col2, Tail(p2s), pairsthispeak)

\* for col2 in xrange(col+1, min(scols, col+targetdt)): the landmarks appended
RECURSIVE PairCol2s(_, _, _, _, _)
PairCol2s(pkl, c, peak, col2, pairsthispeak) ==
    IF col2 >= Col2End(VLen(pkl), c) THEN <<>>
    ELSE LET r == PairPeak2s(c, peak, col2, pkl[col2], pairsthispeak)
         IN  r.landmarks \o PairCol2s(pkl, c, peak, col2 + 1, r.pairs)

\* for peak in pklist[col], with pairsthispeak = 0 for each
RECURSIVE PairPeaks(_, _, _)
PairPeaks(pkl, c, ps) ==
    IF ps = <<>> THEN <<>>
    ELSE PairCol2s(pkl, c, Head(ps), c + 1, 0) \o PairPeaks(pkl, c, Tail(ps))

\* for col in xrange(scols)
RECURSIVE PairFrames(_, _)
PairFrames(pkl, c) ==
    IF c >= VLen(pkl) THEN <<>>
    ELSE PairPeaks(pkl, c, pkl[c]) \o PairFrames(pkl, c + 1)

peaks2landmarks(pkl) == PairFrames(pkl, 0)

----------------------------------------------------------------------------
(* landmarks2hashes                                                        *)

RECURSIVE Pow2(_)
Pow2(n) == IF n = 0 THEN 1 ELSE 2 * Pow2(n - 1)

F1bits == 8
DFbits == 6
DTbits == 6

\* v & ((1 << bits) - 1), of a Python integer of either sign
MaskBits(v, bits) == v % Pow2(bits)

\* v << shift
ShiftLeft(v, shift) == v * Pow2(shift)

\* v >> shift
ShiftRight(v, shift) == v \div Pow2(shift)

\* lines 190-192; the three fields do not overlap, so | adds them
HashCode(bin1, bin2, dtime) ==
    ShiftLeft(MaskBits(bin1, F1bits), DFbits + DTbits)
    + ShiftLeft(MaskBits(bin2 - bin1, DFbits), DTbits)
    + MaskBits(dtime, DTbits)

landmarks2hashes(lms) ==
    [i \in 1..Len(lms) |-> <<lms[i][1], HashCode(lms[i][2], lms[i][3], lms[i][4])>>]

----------------------------------------------------------------------------
(* find_peaks, one step of its loops per action                            *)

NoLog == [col |-> -1, peakpos |-> -1, val |-> 0, thr |-> 0, kept |-> FALSE]

\* lines 88-105.  np.max of an array without elements raises ValueError.
FindPeaksStart ==
    /\ pc = "find_peaks"
    /\ IF FindPeaksRaises(S)
       THEN /\ pc' = "ValueError"
            /\ UNCHANGED <<sthresh, peaks, col>>
       ELSE /\ sthresh' = spreadpeaksinvector(FirstFramesMax(S))
            /\ peaks' = ZeroMatrix(srowsOf(S), scolsOf(S))
            /\ col' = 0
            /\ pc' = "fwd_frame"
    /\ UNCHANGED <<S, cands, npeaksfound, fwdpeaks, bwdlog, pklist>>
    /\ UNCHANGED <<lmxVars, lmVars, mainVars>>

\* lines 106-117
ForwardFrame ==
    /\ pc = "fwd_frame"
    /\ col < scolsOf(S)
    /\ cands' = ForwardCandidates(Column(S, col), sthresh)
    /\ npeaksfound' = 0
    /\ pc' = "fwd_cand"
    /\ UNCHANGED <<S, sthresh, peaks, col, fwdpeaks, bwdlog, pklist>>
    /\ UNCHANGED <<lmxVars, lmVars, mainVars>>

\* lines 117-124, one (val, peakpos) of the sorted list
ForwardCandidate ==
    /\ pc = "fwd_cand"
    /\ cands /= <<>>
    /\ LET r == ForwardStep(sthresh, peaks, npeaksfound, Column(S, col), col,
                            Head(cands)[2])
       IN  /\ sthresh' = r.sthresh
           /\ peaks' = r.peaks
           /\ npeaksfound' = r.npeaksfound
    /\ cands' = Tail(cands)
    /\ UNCHANGED <<pc, S, col, fwdpeaks, bwdlog, pklist>>
    /\ UNCHANGED <<lmxVars, lmVars, mainVars>>

\* lines 125-126
ForwardFrameEnd ==
    /\ pc = "fwd_cand"
    /\ cands = <<>>
    /\ sthresh' = Decay(sthresh)
    /\ col' = col + 1
    /\ pc' = "fwd_frame"
    /\ UNCHANGED <<S, peaks, cands, npeaksfound, fwdpeaks, bwdlog, pklist>>
    /\ UNCHANGED <<lmxVars, lmVars, mainVars>>

\* lines 128-130
BackwardStart ==
    /\ pc = "fwd_frame"
    /\ col = scolsOf(S)
    /\ sthresh' = spreadpeaksinvector(Column(S, scolsOf(S) - 1))
    /\ col' = scolsOf(S)
    /\ fwdpeaks' = peaks
    /\ pc' = "bwd_frame"
    /\ UNCHANGED <<S, peaks, cands, npeaksfound, bwdlog, pklist>>
    /\ UNCHANGED <<lmxVars, lmVars, mainVars>>

\* lines 130-133
BackwardFrame ==
    /\ pc = "bwd_frame"
    /\ col > 0
    /\ cands' = BackwardCandidates(S, peaks, col - 1)
    /\ pc' = "bwd_cand"
    /\ UNCHANGED <<S, sthresh, peaks, col, npeaksfound, fwdpeaks, bwdlog, pklist>>
    /\ UNCHANGED <<lmxVars, lmVars, mainVars>>

\* lines 133-140, one (val, peakpos) of the sorted list
BackwardCandidate ==
    /\ pc = "bwd_cand"
    /\ cands /= <<>>
    /\ LET val     == Head(cands)[1]
           peakpos == Head(cands)[2]
           r       == BackwardStep(sthresh, peaks, col - 1, val, peakpos)
       IN  /\ sthresh' = r.sthresh
           /\ peaks' = r.peaks
           /\ bwdlog' = [col |-> col - 1, peakpos |-> peakpos, val |-> val,
                         thr |-> sthresh[peakpos], kept |-> r.kept]
    /\ cands' = Tail(cands)
    /\ UNCHANGED <<pc, S, col, npeaksfound, fwdpeaks, pklist>>
    /\ UNCHANGED <<lmxVars, lmVars, mainVars>>

\* line 141
BackwardFrameEnd ==
    /\ pc = "bwd_cand"
    /\ cands = <<>>
    /\ sthresh' = Decay(sthresh)
    /\ col' = col - 1
    /\ pc' = "bwd_frame"
    /\ UNCHANGED <<S, peaks, cands, npeaksfound, fwdpeaks, bwdlog, pklist>>
    /\ UNCHANGED <<lmxVars, lmVars, mainVars>>

\* lines 143-147
BuildList ==
    /\ pc = "bwd_frame"
    /\ col = 0
    /\ pklist' = PeakList(peaks, scolsOf(S))
    /\ pc' = "find_peaks_done"
    /\ UNCHANGED <<S, sthresh, peaks, col, cands, npeaksfound, fwdpeaks, bwdlog>>
    /\ UNCHANGED <<lmxVars, lmVars, mainVars>>

----------------------------------------------------------------------------
(* Values of the variables a specification does not use.                   *)

LmxIdle == lx = NoVec /\ lmask = NoVec

FpIdle ==
    /\ S = NoVec
    /\ sthresh = NoVec
    /\ peaks = NoVec
    /\ col = 0
    /\ cands = <<>>
    /\ npeaksfound = 0
    /\ fwdpeaks = NoVec
    /\ bwdlog = NoLog

LmIdle == landmarks = <<>> /\ hashes = <<>>

MainIdle ==
    /\ filelist = <<>>
    /\ ix = 0
    /\ ht = [names |-> <<>>, table |-> <<>>, dirty |-> FALSE]
    /\ totdur = 0
    /\ tothashes = 0
    /\ saved = [done |-> FALSE, names |-> <<>>]
    /\ results = <<>>

----------------------------------------------------------------------------
(* SpecLocmax: locmax applied to every vector of the bounds.               *)

InitLocmax ==
    /\ pc = "locmax"
    /\ lx \in LocmaxInputs
    /\ lmask = NoVec
    /\ pklist = NoVec
    /\ FpIdle /\ LmIdle /\ MainIdle

LocmaxCall ==
    /\ pc = "locmax"
    /\ lmask' = locmax(lx)
    /\ pc' = "locmax_done"
    /\ UNCHANGED <<lx, pklist, fpVars, lmVars, mainVars>>

NextLocmax == LocmaxCall

SpecLocmax == InitLocmax /\ [][NextLocmax]_vars

----------------------------------------------------------------------------
(* SpecPeaks: find_peaks on the spectrograms of the bounds: no frame at    *)
(* all, or LeadFrames equal frames, then up to NTail frames of any tiles.   *)

NBins == 11
LeadFrames == 10
NTail == 1

Vals == {-1000, 0, 1000, 2000}

\* a tile gives the values of the even and of the odd bins of a column
Tiles == [0..1 -> Vals]

\* nl frames of the tile lead, then the frames of the tiles tail[0], tail[1], ...
TiledSpectrogram(lead, nl, tail) ==
    [b \in 0..(NBins-1) |->
        [c \in 0..(nl + VLen(tail) - 1) |->
            IF c < nl THEN lead[b % 2] ELSE tail[c - nl][b % 2]]]

Tails == UNION {[0..(nt-1) -> Tiles] : nt \in 0..NTail}

Spectrograms ==
    {TiledSpectrogram(lead, nl, tail) :
        lead \in Tiles, nl \in {0, LeadFrames}, tail \in Tails}

InitPeaks ==
    /\ pc = "find_peaks"
    /\ S \in Spectrograms
    /\ sthresh = NoVec
    /\ peaks = NoVec
    /\ col = 0
    /\ cands = <<>>
    /\ npeaksfound = 0
    /\ fwdpeaks = NoVec
    /\ bwdlog = NoLog
    /\ pklist = NoVec
    /\ LmxIdle /\ LmIdle /\ MainIdle

NextPeaks ==
    \/ FindPeaksStart
    \/ ForwardFrame
    \/ ForwardCandidate
    \/ ForwardFrameEnd
    \/ BackwardStart
    \/ BackwardFrame
    \/ BackwardCandidate
    \/ BackwardFrameEnd
    \/ BuildList

SpecPeaks == InitPeaks /\ [][NextPeaks]_vars

----------------------------------------------------------------------------
(* SpecLandmarks: peaks2landmarks and landmarks2hashes on the peak lists   *)
(* of the bounds: LMFrames frames, at most MaxPeaks peaks, at the frames   *)
(* and bins around the limits of the pairing window and of the hash.       *)

LMFrames == 65
MaxPeaks == 5

PeakCols == {0, 1, targetdt - 1, targetdt}
PeakBins == {0, targetdf - 1, targetdf, 256}

PeakSets == {P \in SUBSET (PeakCols \X PeakBins) : Cardinality(P) <= MaxPeaks}

PeakListOf(P) == [c \in 0..(LMFrames-1) |-> AscSeq({b \in PeakBins : <<c, b>> \in P})]

InitLandmarks ==
    /\ pc = "peaks2landmarks"
    /\ pklist \in {PeakListOf(P) : P \in PeakSets}
    /\ landmarks = <<>>
    /\ hashes = <<>>
    /\ LmxIdle /\ FpIdle /\ MainIdle

Peaks2Landmarks ==
    /\ pc = "peaks2landmarks"
    /\ landmarks' = peaks2landmarks(pklist)
    /\ pc' = "landmarks2hashes"
    /\ UNCHANGED <<hashes, pklist, lmxVars, fpVars, mainVars>>

Landmarks2Hashes ==
    /\ pc = "landmarks2hashes"
    /\ hashes' = landmarks2hashes(landmarks)
    /\ pc' = "hashes_done"
    /\ UNCHANGED <<landmarks, pklist, lmxVars, fpVars, mainVars>>

NextLandmarks == Peaks2Landmarks \/ Landmarks2Hashes

SpecLandmarks == InitLandmarks /\ [][NextLandmarks]_vars

\* find_peaks as a function gives what the steps of SpecPeaks build
PureAgrees == pc = "find_peaks_done" => pklist = find_peaks(S)

----------------------------------------------------------------------------
(* ingest and main (the new and add commands).  A file is undecodable      *)
(* (librosa.load raises) or holds nsamples samples; S is the spectrogram   *)
(* librosa.stft gives for them.  Durations are counted in samples: the     *)
(* value returned is nsamples/sr.                                          *)

n_hop == 256

\* the hash table: the track names, per track its hashes, and the dirty flag
HtNew == [names |-> <<>>, table |-> <<>>, dirty |-> FALSE]

HtLoaded == [names |-> <<"old.wav">>, table |-> << <<>> >>, dirty |-> FALSE]

\* ht.store(filename, hashes)
HtStore(h, name, hs) ==
    [names |-> Append(h.names, name), table |-> Append(h.table, hs), dirty |-> TRUE]

\* ht.save(dbase)
HtSave(h) == [done |-> TRUE, names |-> h.names]

Undecodable == [name |-> "bad.mp3", kind |-> "undecodable", nsamples |-> 0, S |-> NoVec]

AudioFile(name, M) ==
    [name |-> name, kind |-> "audio", nsamples |-> scolsOf(M) * n_hop, S |-> M]

EmptyAudio == AudioFile("empty.wav", ZeroMatrix(NBins, 0))

\* librosa.stft of the samples of a file: of no samples at all it either raises
\* or gives a matrix without frames
StftOutcomes(file) ==
    IF file.nsamples = 0
    THEN {[raised |-> TRUE, S |-> file.S], [raised |-> FALSE, S |-> file.S]}
    ELSE {[raised |-> FALSE, S |-> file.S]}

Raised(name, h) == [raised |-> name, ht |-> h, dur |-> 0, nhashes |-> 0]

\* lines 210-216: what ingest returns, or the exception it lets through
ingest(h, file, stft) ==
    IF file.kind = "undecodable" THEN Raised("DecodeError", h)
    ELSE IF stft.raised THEN Raised("StftError", h)
    ELSE IF FindPeaksRaises(stft.S) THEN Raised("ValueError", h)
    ELSE LET hs == landmarks2hashes(peaks2landmarks(find_peaks(stft.S)))
         IN  [raised |-> "none", ht |-> HtStore(h, file.name, hs),
              dur |-> file.nsamples, nhashes |-> Len(hs)]

\* lines 311-315: one turn of the loop over the files; an exception of ingest is
\* not caught and ends main
MainIngest ==
    /\ pc = "main_loop"
    /\ ix < Len(filelist)
    /\ \E stft \in StftOutcomes(filelist[ix + 1]) :
           LET r == ingest(ht, filelist[ix + 1], stft)
           IN  /\ results' = Append(results, [raised |-> r.raised, dur |-> r.dur,
                                              nhashes |-> r.nhashes])
               /\ IF r.raised /= "none"
                  THEN /\ pc' = r.raised
                       /\ UNCHANGED <<ht, totdur, tothashes, ix>>
                  ELSE /\ ht' = r.ht
                       /\ totdur' = totdur + r.dur
                       /\ tothashes' = tothashes + r.nhashes
                       /\ ix' = ix + 1
                       /\ pc' = "main_loop"
    /\ UNCHANGED <<filelist, saved, pklist, lmxVars, fpVars, lmVars>>

\* lines 316-319: the summary divides by totdur
MainSummary ==
    /\ pc = "main_loop"
    /\ ix = Len(filelist)
    /\ pc' = IF totdur = 0 THEN "ZeroDivisionError" ELSE "main_save"
    /\ UNCHANGED <<mainVars, pklist, lmxVars, fpVars, lmVars>>

\* lines 320-321
MainSave ==
    /\ pc = "main_save"
    /\ saved' = IF ht.dirty THEN HtSave(ht) ELSE saved
    /\ pc' = "main_done"
    /\ UNCHANGED <<filelist, ix, ht, totdur, tothashes, results>>
    /\ UNCHANGED <<pklist, lmxVars, fpVars, lmVars>>

----------------------------------------------------------------------------
(* SpecMain: main on the lists of at most MaxFiles files, with a new or a  *)
(* loaded hash table.                                                      *)

MaxFiles == 3

\* ten equal frames of a tone, and the same followed by a louder frame
ToneS == TiledSpectrogram([i \in 0..1 |-> 1000], LeadFrames, <<>>)

OnsetS == TiledSpectrogram([i \in 0..1 |-> IF i = 0 THEN 1000 ELSE -1000], LeadFrames,
                           [j \in 0..0 |-> [i \in 0..1 |-> 2000]])

Files == {Undecodable, EmptyAudio, AudioFile("tone.wav", ToneS),
          AudioFile("onset.wav", OnsetS)}

FileLists == UNION {[1..n -> Files] : n \in 0..MaxFiles}

InitMain ==
    /\ pc = "main_loop"
    /\ filelist \in FileLists
    /\ ix = 0
    /\ ht \in {HtNew, HtLoaded}
    /\ totdur = 0
    /\ tothashes = 0
    /\ saved = [done |-> FALSE, names |-> <<>>]
    /\ results = <<>>
    /\ pklist = NoVec
    /\ LmxIdle /\ FpIdle /\ LmIdle

NextMain == MainIngest \/ MainSummary \/ MainSave

SpecMain == InitMain /\ [][NextMain]_vars

----------------------------------------------------------------------------
(* Claims about locmax (SpecLocmax).                                       *)

Marked(mask) == {i \in DOMAIN mask : mask[i]}

StrictlyIncreasing(x) == \A i \in DOMAIN x : i + 1 \in DOMAIN x => x[i] < x[i+1]

StrictlyDecreasing(x) == \A i \in DOMAIN x : i + 1 \in DOMAIN x => x[i] > x[i+1]

Constant(x) == \A i \in DOMAIN x : x[i] = x[0]

\* C6: locmax marks index 0 iff n = 1 or x[0] > x[1]; an interior index i iff
\* x[i] >= x[i-1] and x[i] > x[i+1]; index n-1 (n >= 2) iff x[n-1] >= x[n-2].
\* So a strictly increasing x gives {n-1}, a strictly decreasing x gives {0}
\* and a constant x gives {n-1}.
C6_LocmaxBoundaryLaw ==
    pc = "locmax_done" =>
        LET n == VLen(lx)
        IN  /\ DOMAIN lmask = 0..(n-1)
            /\ lmask[0] <=> (n = 1 \/ lx[0] > lx[1])
            /\ \A i \in 1..(n-2) :
                   lmask[i] <=> (lx[i] >= lx[i-1] /\ lx[i] > lx[i+1])
            /\ n >= 2 => (lmask[n-1] <=> lx[n-1] >= lx[n-2])
            /\ StrictlyIncreasing(lx) => Marked(lmask) = {n-1}
            /\ StrictlyDecreasing(lx) => Marked(lmask) = {0}
            /\ Constant(lx) => Marked(lmask) = {n-1}

\* a constant vector of three or more values: only its last index is marked
C6_Witness ==
    /\ pc = "locmax_done"
    /\ VLen(lx) >= 3
    /\ Constant(lx)
    /\ Marked(lmask) = {VLen(lx) - 1}

\* i..j is a run of two or more equal values, higher than x[i-1] and x[j+1]
Plateau(x, i, j) ==
    /\ 1 <= i /\ i < j /\ j <= VLen(x) - 2
    /\ \A k \in i..j : x[k] = x[i]
    /\ x[i-1] < x[i]
    /\ x[j+1] < x[j]

\* C10 as stated: of a plateau higher than both its sides, locmax marks exactly
\* one index, the earliest of the run.
C10_PlateauEarliest ==
    pc = "locmax_done" =>
        \A i, j \in DOMAIN lx :
            Plateau(lx, i, j) => {k \in i..j : lmask[k]} = {i}

\* C10 amended: of a plateau higher than both its sides, locmax marks exactly
\* one index, the latest (highest) of the run.
C10_PlateauLatest ==
    pc = "locmax_done" =>
        \A i, j \in DOMAIN lx :
            Plateau(lx, i, j) => {k \in i..j : lmask[k]} = {j}

C10_Witness ==
    /\ pc = "locmax_done"
    /\ \E i, j \in DOMAIN lx : Plateau(lx, i, j) /\ lmask[j] /\ ~lmask[i]

----------------------------------------------------------------------------
(* Claims about find_peaks (SpecPeaks).                                    *)

InForward == pc \in {"fwd_frame", "fwd_cand"}

InBackward == pc \in {"bwd_frame", "bwd_cand"}

MarkedBins(pk, c) == {b \in DOMAIN pk : pk[b][c] = 1}

Frames(M) == 0..(scolsOf(M) - 1)

\* C2, at every state: the bins marked during and after the backward pass are
\* bins the forward pass marked for the same frame, and so are the bins returned.
C2_SubsetOfForward ==
    /\ InBackward \/ pc = "find_peaks_done" =>
           \A c \in Frames(S) : MarkedBins(peaks, c) \subseteq MarkedBins(fwdpeaks, c)
    /\ pc = "find_peaks_done" =>
           \A c \in Frames(S) : SeqToSet(pklist[c]) \subseteq MarkedBins(fwdpeaks, c)

\* C2, at every step: the backward loop never sets an entry of the peak matrix.
C2_NeverSets ==
    InBackward =>
        \A c \in Frames(S) : MarkedBins(peaks', c) \subseteq MarkedBins(peaks, c)

\* C2: the backward pass is a filter: for every frame the bins marked after the
\* backward loop are a subset of those marked at the end of the forward pass, and
\* no step of the backward loop sets an entry of the peak matrix.
C2_BackwardIsFilter == [](C2_SubsetOfForward) /\ [][C2_NeverSets]_vars

\* the backward pass has just cleared a peak the forward pass had marked
C2_Witness ==
    /\ InBackward
    /\ bwdlog.col >= 0
    /\ ~bwdlog.kept
    /\ fwdpeaks[bwdlog.peakpos][bwdlog.col] = 1
    /\ peaks[bwdlog.peakpos][bwdlog.col] = 0

\* C3: at every step of the forward pass, and after it, no frame has more than
\* maxpksperframe bins marked; nor has any frame of the returned peak list.
C3_PeakCap ==
    /\ InForward \/ InBackward \/ pc = "find_peaks_done" =>
           /\ npeaksfound <= maxpksperframe
           /\ \A c \in Frames(S) : Cardinality(MarkedBins(peaks, c)) <= maxpksperframe
    /\ pc = "find_peaks_done" =>
           \A c \in Frames(S) : Len(pklist[c]) <= maxpksperframe

\* the cap refuses a candidate that is above the envelope
C3_Witness ==
    /\ pc = "fwd_cand"
    /\ cands /= <<>>
    /\ npeaksfound = maxpksperframe
    /\ Cardinality(MarkedBins(peaks, col)) = maxpksperframe
    /\ Head(cands)[1] > sthresh[Head(cands)[2]]

\* C9 as stated: a peak is kept only if its value strictly exceeds the backward
\* envelope at its bin; at or below the envelope it is cleared.
C9_KeepIsStrict ==
    bwdlog.col >= 0 =>
        /\ bwdlog.kept <=> bwdlog.val > bwdlog.thr
        /\ peaks[bwdlog.peakpos][bwdlog.col] = 1 <=> bwdlog.val > bwdlog.thr

\* C9 amended: a forward-accepted peak is kept (and the envelope raised at its
\* bin) if and only if its raw value is at least the current backward envelope
\* at its bin; only a peak strictly below the envelope is cleared.
C9_KeepIsAtLeast ==
    bwdlog.col >= 0 =>
        /\ bwdlog.val = S[bwdlog.peakpos][bwdlog.col]
        /\ fwdpeaks[bwdlog.peakpos][bwdlog.col] = 1
        /\ bwdlog.kept <=> bwdlog.val >= bwdlog.thr
        /\ peaks[bwdlog.peakpos][bwdlog.col] = 1 <=> bwdlog.val >= bwdlog.thr
        /\ pc = "bwd_cand" /\ bwdlog.col = col - 1 /\ bwdlog.kept =>
               sthresh[bwdlog.peakpos] >= bwdlog.val

\* a peak whose value equals the envelope at its bin has been kept
C9_Witness ==
    /\ bwdlog.col >= 0
    /\ bwdlog.val = bwdlog.thr
    /\ bwdlog.kept
    /\ peaks[bwdlog.peakpos][bwdlog.col] = 1

----------------------------------------------------------------------------
(* Claims about peaks2landmarks and landmarks2hashes (SpecLandmarks).      *)

Paired == pc \in {"landmarks2hashes", "hashes_done"}

\* C4: every landmark (t, f1, f2, dt) has 0 < dt < targetdt and
\* |f1 - f2| < targetdf, frame t holds f1 and t + dt is a frame that holds f2;
\* so no landmark pairs a peak with a peak of the same or an earlier frame.
C4_LandmarkWindow ==
    Paired =>
        \A i \in 1..Len(landmarks) :
            LET t  == landmarks[i][1]
                f1 == landmarks[i][2]
                f2 == landmarks[i][3]
                dt == landmarks[i][4]
            IN  /\ 0 < dt /\ dt < targetdt
                /\ Abs(f1 - f2) < targetdf
                /\ t \in DOMAIN pklist /\ f1 \in SeqToSet(pklist[t])
                /\ t + dt \in DOMAIN pklist /\ f2 \in SeqToSet(pklist[t + dt])

\* a pair at the largest time distance is emitted while a peak of the same bin
\* just outside the window of its frame is not
C4_Witness ==
    /\ Paired
    /\ \E i \in 1..Len(landmarks) :
           /\ landmarks[i][1] = 0
           /\ landmarks[i][4] = targetdt - 1
           /\ landmarks[i][2] \in SeqToSet(pklist[targetdt])

\* the eligible candidates of the source peak (c, peak), as (col2, peak2)
Candidates(pkl, c, peak) ==
    UNION {{<<col2, peak2>> : peak2 \in {q \in SeqToSet(pkl[col2]) :
                                            Abs(peak - q) < targetdf}} :
           col2 \in {k \in DOMAIN pkl : c < k /\ k < Min2(VLen(pkl), c + targetdt)}}

\* by increasing col2 and, within a frame, increasing bin
RECURSIVE LexAscSeq(_)
LexAscSeq(ps) ==
    IF ps = {} THEN <<>>
    ELSE LET m == CHOOSE p \in ps : \A q \in ps \ {p} :
                      p[1] < q[1] \/ (p[1] = q[1] /\ p[2] < q[2])
         IN  <<m>> \o LexAscSeq(ps \ {m})

\* the landmarks of one source peak, in the order of the landmark list
Emitted(lms, c, peak) == SelectSeq(lms, LAMBDA l : l[1] = c /\ l[2] = peak)

\* C5: each source peak (col, peak) contributes exactly the first
\* min(maxpairsperpeak, n) of its n eligible candidates, taken by increasing col2
\* and, within a frame, increasing bin; never more than maxpairsperpeak.
C5_PairingCap ==
    Paired =>
        \A c \in DOMAIN pklist :
            \A peak \in SeqToSet(pklist[c]) :
                LET cs == LexAscSeq(Candidates(pklist, c, peak))
                    k  == Min2(maxpairsperpeak, Len(cs))
                    em == Emitted(landmarks, c, peak)
                IN  /\ Len(em) = k
                    /\ Len(em) <= maxpairsperpeak
                    /\ \A i \in 1..k : em[i] = <<c, peak, cs[i][2], cs[i][1] - c>>

\* a source peak with more eligible candidates than the cap has exactly
\* maxpairsperpeak landmarks
C5_Witness ==
    /\ Paired
    /\ \E c \in DOMAIN pklist :
           \E peak \in SeqToSet(pklist[c]) :
               /\ Cardinality(Candidates(pklist, c, peak)) > maxpairsperpeak
               /\ Len(Emitted(landmarks, c, peak)) = maxpairsperpeak

\* the 6-bit field read as a signed value
Signed6(v) == IF v >= 32 THEN v - 64 ELSE v

\* C1: for every landmark (time, bin1, bin2, dtime) that peaks2landmarks emits
\* from a peak list over the bins 0..256, the code of landmarks2hashes decodes,
\* as (code >> 12) & 255, signed (code >> 6) & 63 and code & 63, to bin1, to a
\* frequency difference congruent to bin2 - bin1 modulo 64 and to dtime; the code
\* is in 0..2^20-1 and the time is passed through unchanged.
C1_HashRoundTrip ==
    pc = "hashes_done" =>
        /\ Len(hashes) = Len(landmarks)
        /\ \A i \in 1..Len(hashes) :
               LET code  == hashes[i][2]
                   bin1  == landmarks[i][2]
                   bin2  == landmarks[i][3]
                   dtime == landmarks[i][4]
               IN  /\ hashes[i][1] = landmarks[i][1]
                   /\ code \in 0..(Pow2(20) - 1)
                   /\ MaskBits(ShiftRight(code, 12), 8) = bin1
                   /\ (Signed6(MaskBits(ShiftRight(code, 6), 6)) - (bin2 - bin1)) % 64 = 0
                   /\ MaskBits(code, 6) = dtime

----------------------------------------------------------------------------
(* Claims about ingest and main (SpecMain).                                *)

MainEnded ==
    pc \in {"main_done", "DecodeError", "StftError", "ValueError", "ZeroDivisionError"}

IsEmptyAudio(file) == file.kind = "audio" /\ file.nsamples = 0

\* C7: ingest of a file whose sample sequence is empty does not fail: it returns
\* duration 0 and no hashes, and hands the empty hash list to ht.store.
C7_EmptyInputIngests ==
    \A i \in 1..Len(results) :
        IsEmptyAudio(filelist[i]) =>
            /\ results[i].raised = "none"
            /\ results[i].dur = 0
            /\ results[i].nhashes = 0
            /\ \E k \in 1..Len(ht.names) :
                   ht.names[k] = filelist[i].name /\ ht.table[k] = <<>>

\* C8: when decoding one file of the list fails, every later file is still
\* ingested (and stored, if it is sound), and the index is still saved at the end
\* if it was modified.
C8_BatchSurvivesDecodeFailure ==
    MainEnded =>
        \A i \in 1..Len(filelist) :
            filelist[i].kind = "undecodable" =>
                /\ \A j \in (i+1)..Len(filelist) :
                       /\ j <= Len(results)
                       /\ filelist[j].kind = "audio" /\ filelist[j].nsamples > 0 =>
                              \E k \in 1..Len(ht.names) : ht.names[k] = filelist[j].name
                /\ ht.dirty => saved.done /\ saved.names = ht.names

====
